---- MODULE Spec2Model ----
(***************************************************************************)
(* Model of lib/passport-youtube-v3/strategy.js: the YouTube OAuth 2.0     *)
(* passport strategy.  The strategy holds its configuration, fetches and   *)
(* normalises the user's profile (userProfile), converts profile field     *)
(* names (_convertProfileFields) and builds the provider-specific          *)
(* authorization parameters (authorizationParams).                         *)
(***************************************************************************)
EXTENDS Integers, Sequences, FiniteSets, TLC

(***************************************************************************)
(* Bounds.                                                                 *)
(***************************************************************************)
\* number of userProfile invocations that may be in flight together
MaxCalls == 2
\* largest number of keys on an options object given to authorizationParams
MaxOptionKeys == 2
\* longest profileFields array given to _convertProfileFields
MaxFields == 3

Calls == 1..MaxCalls

(***************************************************************************)
(* JavaScript values, tagged by their type.                                *)
(***************************************************************************)
Undefined == [type |-> "undefined"]
JNull == [type |-> "null"]
JStr(s) == [type |-> "string", str |-> s]
JNum(n) == [type |-> "number", num |-> n]
JArr(e) == [type |-> "array", elems |-> e]
JObj(p) == [type |-> "object", props |-> p]
JBool(b) == [type |-> "boolean", bool |-> b]
JFun(n) == [type |-> "function", name |-> n]
JError(n, m) == [type |-> "error", name |-> n, message |-> m]

\* ToBoolean, as applied by `if (x)`, `x && y` and `x || y`
Truthy(v) ==
  CASE v.type \in {"undefined", "null"} -> FALSE
    [] v.type = "string" -> v.str # ""
    [] v.type = "number" -> v.num # 0
    [] v.type = "boolean" -> v.bool
    [] OTHER -> TRUE

\* a property read v.k / v[k] throws a TypeError on null and undefined
CanRead(v) == v.type \notin {"undefined", "null"}

\* the value of the property read v.k, for a v that can be read
GetProp(v, k) ==
  CASE v.type = "object" -> IF k \in DOMAIN v.props THEN v.props[k] ELSE Undefined
    [] v.type = "array" -> IF k = "length" THEN JNum(Len(v.elems)) ELSE Undefined
    [] v.type = "string" -> IF k = "length" THEN JNum(Len(v.str)) ELSE Undefined
    [] OTHER -> Undefined

\* variant: the last element is read, v[v.length - 1]
GetLast(v) ==
  CASE v.type = "array" -> IF Len(v.elems) > 0 THEN v.elems[Len(v.elems)] ELSE Undefined
    [] OTHER -> Undefined

\* the value of the element read v[0], for a v that can be read
GetFirst(v) ==
  CASE v.type = "array" -> IF Len(v.elems) > 0 THEN v.elems[1] ELSE Undefined
    [] v.type = "object" -> IF "0" \in DOMAIN v.props THEN v.props["0"] ELSE Undefined
    [] OTHER -> Undefined

\* obj[k] = v on a plain object
SetProp(obj, k, v) ==
  JObj([x \in DOMAIN obj.props \cup {k} |-> IF x = k THEN v ELSE obj.props[x]])

(***************************************************************************)
(* State.                                                                  *)
(***************************************************************************)
VARIABLES
  config,       \* the strategy's configuration, as left by the constructor
  pc,           \* pc[c]: position of userProfile invocation c
  accessToken,  \* accessToken[c]: the accessToken argument of invocation c
  done,         \* done[c]: how the done argument of invocation c behaves
  requests,     \* requests[c]: getProtectedResource requests issued by c
  response,     \* response[c]: (err, body) the fetch handed to c's callback
  parsed,       \* parsed[c]: JSON.parse was applied to c's body
  doneCalls,    \* doneCalls[c]: argument lists of the invocations of done
  uncaught,     \* uncaught[c]: exception that left c's callback, if any
  returned      \* the latest return of authorizationParams/_convertProfileFields

vars == <<config, pc, accessToken, done, requests, response, parsed,
          doneCalls, uncaught, returned>>

callVars == <<pc, accessToken, done, requests, response, parsed,
              doneCalls, uncaught>>

(***************************************************************************)
(* Strategy(options, verify): the constructor.                             *)
(***************************************************************************)
DefaultAuthorizationURL == JStr("https://accounts.google.com/o/oauth2/auth")
DefaultTokenURL == JStr("https://accounts.google.com/o/oauth2/token")
DefaultScope == JArr(<<JStr("https://www.googleapis.com/auth/youtube.readonly")>>)
DefaultProfileURL == JStr("https://www.googleapis.com/youtube/v3/channels?part=snippet&mine=true")

\* options objects handed to the constructor: nothing set, a falsy
\* profileURL, and every recognised field set
ConstructorOptions ==
  { JObj(<<>>),
    JObj([profileURL |-> JStr("")]),
    JObj([authorizationURL |-> JStr("https://auth.example/authorize"),
          tokenURL |-> JStr("https://auth.example/token"),
          scope |-> JArr(<<JStr("scope.a"), JStr("scope.b")>>),
          profileURL |-> JStr("https://api.example/me")]) }

\* a || b
Or(a, b) == IF Truthy(a) THEN a ELSE b

\* the strategy object the constructor leaves behind
Strategy(options) ==
  [authorizationURL |-> Or(GetProp(options, "authorizationURL"), DefaultAuthorizationURL),
   tokenURL |-> Or(GetProp(options, "tokenURL"), DefaultTokenURL),
   scope |-> Or(GetProp(options, "scope"), DefaultScope),
   name |-> JStr("youtube"),
   profileURL |-> Or(GetProp(options, "profileURL"), DefaultProfileURL)]

(***************************************************************************)
(* Strategy.prototype.userProfile(accessToken, done).                      *)
(***************************************************************************)
AccessTokens == {"token-A", "token-B"}

\* a done callback that returns normally, and one that throws when invoked
DoneKinds == {"returns", "throws"}

DoneThrows(kind) == kind = "throws"

DoneException == JError("Error", "thrown by done")

\* response bodies
BodyNotJson == "not json"
BodyChannel == "{\"items\":[{\"id\":\"abc\",\"snippet\":{\"title\":\"My Channel\"}}]}"
BodyTwoChannels == "{\"items\":[{\"id\":\"x\",\"snippet\":{\"title\":\"X\"}},{\"id\":\"y\",\"snippet\":{\"title\":\"Y\"}}]}"
BodyNoItems == "{\"items\":[]}"
BodyEmptyObject == "{}"
BodyNull == "null"
BodyNoSnippet == "{\"items\":[{\"id\":\"abc\"}]}"
BodyNullItem == "{\"items\":[null]}"

Bodies == {BodyNotJson, BodyChannel, BodyTwoChannels, BodyNoItems,
           BodyEmptyObject, BodyNull, BodyNoSnippet, BodyNullItem}

Channel(id, title) ==
  JObj([id |-> JStr(id), snippet |-> JObj([title |-> JStr(title)])])

\* JSON.parse(body): the parsed value, or the SyntaxError it throws
JSONparse(body) ==
  LET Value(v) == [ok |-> TRUE, value |-> v]
      Fail == [ok |-> FALSE, error |-> JError("SyntaxError", "Unexpected token")]
  IN IF body.type # "string" THEN Fail
     ELSE CASE body.str = BodyChannel ->
                 Value(JObj([items |-> JArr(<<Channel("abc", "My Channel")>>)]))
            [] body.str = BodyTwoChannels ->
                 Value(JObj([items |-> JArr(<<Channel("x", "X"), Channel("y", "Y")>>)]))
            [] body.str = BodyNoItems -> Value(JObj([items |-> JArr(<<>>)]))
            [] body.str = BodyEmptyObject -> Value(JObj(<<>>))
            [] body.str = BodyNull -> Value(JNull)
            [] body.str = BodyNoSnippet ->
                 Value(JObj([items |-> JArr(<<JObj([id |-> JStr("abc")])>>)]))
            [] body.str = BodyNullItem -> Value(JObj([items |-> JArr(<<JNull>>)]))
            [] OTHER -> Fail

TypeError(prop) == JError("TypeError", "Cannot read property '" \o prop \o "'")

InternalOAuthError(message, err) ==
  [type |-> "error", name |-> "InternalOAuthError", message |-> message,
   oauthError |-> err]

\* variant: the parsed body is stored under both keys
AttachParsedTwice(profile, body, json) ==
  SetProp(SetProp(profile, "_raw", json), "_json", json)

\* profile._raw = body; profile._json = json
AttachRaw(profile, body, json) ==
  SetProp(SetProp(profile, "_raw", body), "_json", json)

\* the statements of the try block before the call of done: the profile
\* they build, or the exception they throw
userProfileTry(body) ==
  LET Throw(e) == [threw |-> TRUE, e |-> e]
      Built(p) == [threw |-> FALSE, profile |-> p]
      p == JSONparse(body)
  IN IF ~p.ok THEN Throw(p.error)
     ELSE
       LET json == p.value IN
       IF ~CanRead(json) THEN Throw(TypeError("items"))
       ELSE
         LET items == GetProp(json, "items")
             length == IF Truthy(items) THEN GetProp(items, "length") ELSE Undefined
             youtubeProfile ==
               IF ~Truthy(items) THEN items
               ELSE IF ~Truthy(length) THEN length
               ELSE GetFirst(items)
             profile0 == JObj([provider |-> JStr("youtube")])
             Finish(profile) == Built(AttachRaw(profile, body, json))
         IN IF Truthy(youtubeProfile)
            THEN LET profile1 == SetProp(profile0, "id", GetProp(youtubeProfile, "id"))
                     snippet == GetProp(youtubeProfile, "snippet")
                 IN IF ~CanRead(snippet) THEN Throw(TypeError("title"))
                    ELSE Finish(SetProp(profile1, "displayName", GetProp(snippet, "title")))
            ELSE Finish(profile0)

\* the exception that leaves a statement that invokes done
Leaves(kind) == IF DoneThrows(kind) THEN DoneException ELSE Undefined

\* variant: the transport error is handed on as it came, done(err)
FetchErrorUnwrapped(err) == err

\* new InternalOAuthError('failed to fetch user profile', err)
FetchError(err) == InternalOAuthError("failed to fetch user profile", err)

\* `return done(new InternalOAuthError(...))`: the invocations of done, the
\* exception that leaves the callback, and whether the body was parsed
OnError(err, kind) ==
  [calls |-> << <<FetchError(err)>> >>, uncaught |-> Leaves(kind), parsed |-> FALSE]

\* variant: the catch clause hands the exception over as a result,
\* done(null, e)
CatchArgsAsResult(e) == <<JNull, e>>

\* the arguments of done in the catch clause: done(e)
CatchArgs(e) == <<e>>

\* the try statement: done(null, profile) is inside the try block, so an
\* exception it throws is caught and handed to done again
TryCatch(body, kind) ==
  LET t == userProfileTry(body) IN
  IF t.threw
  THEN [calls |-> <<CatchArgs(t.e)>>, uncaught |-> Leaves(kind), parsed |-> TRUE]
  ELSE IF ~DoneThrows(kind)
  THEN [calls |-> << <<JNull, t.profile>> >>, uncaught |-> Undefined, parsed |-> TRUE]
  ELSE [calls |-> << <<JNull, t.profile>>, CatchArgs(DoneException) >>,
        uncaught |-> Leaves(kind), parsed |-> TRUE]

\* variant: the strategy keeps the body of a fetch that completed and the
\* callback serves it again
CallbackCached(err, body, kind) ==
  LET earlier == {c \in Calls : pc[c] = "completed" /\ response[c].body.type = "string"}
      cached == IF earlier = {} THEN body
                ELSE response[CHOOSE c \in earlier : TRUE].body
  IN IF Truthy(err) THEN OnError(err, kind) ELSE TryCatch(cached, kind)

\* the callback handed to getProtectedResource, run on (err, body) with a
\* done callback of the given kind
Callback(err, body, kind) ==
  IF Truthy(err) THEN OnError(err, kind) ELSE TryCatch(body, kind)

\* variant: the fetch goes to the built-in URL, whatever was configured
ProfileRequestDefaultURL(self, token) ==
  [url |-> DefaultProfileURL, accessToken |-> token]

\* the arguments of this._oauth2.getProtectedResource(url, accessToken, ...)
ProfileRequest(self, token) == [url |-> self.profileURL, accessToken |-> token]

\* what the fetch may hand to the callback: a transport error (an Error
\* without a body, or a {statusCode, data} object next to a body), or a body
\* without an error
SocketError == JError("Error", "ECONNRESET")
StatusError == JObj([statusCode |-> JNum(401), data |-> JStr("Unauthorized")])

FetchOutcomes ==
  {[err |-> SocketError, body |-> Undefined],
   [err |-> StatusError, body |-> JStr(BodyChannel)]}
    \cup {[err |-> JNull, body |-> JStr(b)] : b \in Bodies}

NoResponse == [err |-> Undefined, body |-> Undefined]

\* userProfile is invoked: it issues the fetch and returns.  Invocations
\* are numbered in the order in which they are made.
UserProfile(c) ==
  /\ pc[c] = "idle"
  /\ \A d \in Calls : d < c => pc[d] # "idle"
  /\ \E token \in AccessTokens, kind \in DoneKinds :
       /\ accessToken' = [accessToken EXCEPT ![c] = token]
       /\ done' = [done EXCEPT ![c] = kind]
       /\ requests' = [requests EXCEPT ![c] = Append(@, ProfileRequest(config, token))]
  /\ pc' = [pc EXCEPT ![c] = "fetching"]
  /\ UNCHANGED <<config, response, parsed, doneCalls, uncaught, returned>>

\* the fetch of invocation c completes and runs its callback
FetchCallback(c) ==
  /\ pc[c] = "fetching"
  /\ \E outcome \in FetchOutcomes :
       LET r == Callback(outcome.err, outcome.body, done[c]) IN
       /\ response' = [response EXCEPT ![c] = outcome]
       /\ parsed' = [parsed EXCEPT ![c] = r.parsed]
       /\ doneCalls' = [doneCalls EXCEPT ![c] = @ \o r.calls]
       /\ uncaught' = [uncaught EXCEPT ![c] = r.uncaught]
  /\ pc' = [pc EXCEPT ![c] = "completed"]
  /\ UNCHANGED <<config, accessToken, done, requests, returned>>

NotReturned == [op |-> "none"]

InitCalls ==
  /\ pc = [c \in Calls |-> "idle"]
  /\ accessToken = [c \in Calls |-> ""]
  /\ done = [c \in Calls |-> "none"]
  /\ requests = [c \in Calls |-> <<>>]
  /\ response = [c \in Calls |-> NoResponse]
  /\ parsed = [c \in Calls |-> FALSE]
  /\ doneCalls = [c \in Calls |-> <<>>]
  /\ uncaught = [c \in Calls |-> Undefined]

Init ==
  /\ \E options \in ConstructorOptions : config = Strategy(options)
  /\ InitCalls
  /\ returned = NotReturned

(***************************************************************************)
(* Strategy.prototype._convertProfileFields(profileFields).                *)
(***************************************************************************)
\* the local object literal `map`
FieldMap ==
  JObj([id |-> JStr("id"),
        username |-> JStr("username"),
        displayName |-> JStr("name"),
        name |-> JArr(<<JStr("last_name"), JStr("first_name")>>)])

\* properties every object literal inherits from Object.prototype
ObjectPrototype ==
  JObj([constructor |-> JFun("Object"),
        toString |-> JFun("toString"),
        valueOf |-> JFun("valueOf"),
        hasOwnProperty |-> JFun("hasOwnProperty")])

\* map[f]: an own property, else an inherited one, else undefined
Lookup(obj, f) ==
  IF f \in DOMAIN obj.props THEN obj.props[f] ELSE GetProp(ObjectPrototype, f)

\* the loop body of profileFields.forEach, applied to `fields` and f
ConvertOne(fields, f) ==
  LET m == Lookup(FieldMap, f) IN
  IF m.type = "undefined" THEN fields
  ELSE IF m.type = "array" THEN fields \o m.elems
  ELSE Append(fields, m)

\* `fields` after profileFields.forEach
RECURSIVE ConvertEach(_, _)
ConvertEach(fields, profileFields) ==
  IF profileFields = <<>> THEN fields
  ELSE ConvertEach(ConvertOne(fields, Head(profileFields)), Tail(profileFields))

\* the string conversion Array.prototype.join applies to an element
StringOf(v) ==
  CASE v.type = "string" -> v.str
    [] v.type \in {"undefined", "null"} -> ""
    [] v.type = "function" -> "function " \o v.name \o "() { [native code] }"
    [] OTHER -> "[object Object]"

\* elems.join(sep)
RECURSIVE Join(_, _)
Join(elems, sep) ==
  IF elems = <<>> THEN ""
  ELSE IF Len(elems) = 1 THEN StringOf(elems[1])
  ELSE StringOf(elems[1]) \o sep \o Join(Tail(elems), sep)

convertProfileFields(profileFields) == JStr(Join(ConvertEach(<<>>, profileFields), ","))

\* requested names: the four of the map, one that is nowhere, and one that
\* names a property of Object.prototype
FieldNames == {"id", "username", "displayName", "name", "bogus", "toString"}

RECURSIVE SeqsUpTo(_, _)
SeqsUpTo(S, n) ==
  IF n = 0 THEN {<<>>}
  ELSE LET shorter == SeqsUpTo(S, n - 1)
       IN shorter \cup {Append(q, x) : q \in shorter, x \in S}

ProfileFieldLists == SeqsUpTo(FieldNames, MaxFields)

ConvertProfileFieldsOn(inputs) ==
  /\ \E profileFields \in inputs :
       returned' = [op |-> "_convertProfileFields", args |-> profileFields,
                    value |-> convertProfileFields(profileFields)]
  /\ UNCHANGED <<config, callVars>>

ConvertProfileFields == ConvertProfileFieldsOn(ProfileFieldLists)

(***************************************************************************)
(* Strategy.prototype.authorizationParams(options).                        *)
(***************************************************************************)
\* variant: the option is copied without the test
CopyAlways(params, options, k, o) == SetProp(params, k, GetProp(options, o))

\* params[k] = options[o], under `if (options[o])`
CopyIf(params, options, k, o) ==
  IF Truthy(GetProp(options, o)) THEN SetProp(params, k, GetProp(options, o))
  ELSE params

\* variant: hd is preferred, options.hd || options.hostedDomain
HdOrHostedDomain(options) ==
  Or(GetProp(options, "hd"), GetProp(options, "hostedDomain"))

\* options.hostedDomain || options.hd
HostedDomainOrHd(options) ==
  Or(GetProp(options, "hostedDomain"), GetProp(options, "hd"))

authorizationParams(options) ==
  LET p0 == JObj(<<>>)
      p1 == CopyIf(p0, options, "access_type", "accessType")
      p2 == CopyIf(p1, options, "approval_prompt", "approvalPrompt")
      p3 == CopyIf(p2, options, "prompt", "prompt")
      p4 == CopyIf(p3, options, "login_hint", "loginHint")
      p5 == CopyIf(p4, options, "user_id", "userID")
      p6 == IF Truthy(HostedDomainOrHd(options))
            THEN SetProp(p5, "hd", HostedDomainOrHd(options))
            ELSE p5
      p7 == CopyIf(p6, options, "display", "display")
      p8 == CopyIf(p7, options, "request_visible_actions", "requestVisibleActions")
      p9 == CopyIf(p8, options, "openid.realm", "openIDRealm")
  IN p9

\* keys an options object may carry: the ten the function reads and one it
\* does not
OptionKeys ==
  {"accessType", "approvalPrompt", "prompt", "loginHint", "userID",
   "hostedDomain", "hd", "display", "requestVisibleActions", "openIDRealm",
   "state"}

\* values of an option: a falsy one and two truthy ones
OptionValues == {JStr(""), JStr("a.example"), JStr("b.example")}

AuthorizationOptions ==
  { JObj(f) : f \in UNION { [K -> OptionValues] :
      K \in {K \in SUBSET OptionKeys : Cardinality(K) <= MaxOptionKeys} } }

AuthorizationParamsOn(inputs) ==
  /\ \E options \in inputs :
       returned' = [op |-> "authorizationParams", args |-> options,
                    value |-> authorizationParams(options)]
  /\ UNCHANGED <<config, callVars>>

AuthorizationParams == AuthorizationParamsOn(AuthorizationOptions)

(***************************************************************************)
(* Specifications.                                                         *)
(***************************************************************************)
\* concurrent userProfile invocations on one strategy
Next == \E c \in Calls : UserProfile(c) \/ FetchCallback(c)

Spec == Init /\ [][Next]_vars

\* one call of authorizationParams, over every options object within the bound
NextAuth == returned = NotReturned /\ AuthorizationParams

SpecAuth == Init /\ [][NextAuth]_vars

\* one call of _convertProfileFields, over every field list within the bound
NextFields == returned = NotReturned /\ ConvertProfileFields

SpecFields == Init /\ [][NextFields]_vars

\* the two synchronous functions called in between the steps of concurrent
\* userProfile invocations
SampleOptions ==
  { JObj([hostedDomain |-> JStr("a.example"), hd |-> JStr("b.example")]) }

SampleFieldLists == { <<"id", "name", "username">> }

NextAll ==
  \/ \E c \in Calls : UserProfile(c)
  \/ \E c \in Calls : FetchCallback(c)
  \/ AuthorizationParamsOn(SampleOptions)
  \/ ConvertProfileFieldsOn(SampleFieldLists)

SpecAll == Init /\ [][NextAll]_vars

(***************************************************************************)
(* Properties.                                                             *)
(***************************************************************************)
Completed(c) == pc[c] = "completed"

FetchFailed(c) == Completed(c) /\ Truthy(response[c].err)

FetchSucceeded(c) == Completed(c) /\ ~Truthy(response[c].err)

\* invocations done(null, profile) and done(error) among those of c
ProfileCalls(c) ==
  {i \in 1..Len(doneCalls[c]) :
     Len(doneCalls[c][i]) = 2 /\ doneCalls[c][i][1] = JNull}

ErrorCalls(c) ==
  {i \in 1..Len(doneCalls[c]) :
     Len(doneCalls[c][i]) = 1 /\ doneCalls[c][i][1].type = "error"}

ProfilesDelivered(c) == {doneCalls[c][i][2] : i \in ProfileCalls(c)}

\* C1: every userProfile call whose fetch has completed has invoked done
\* exactly once, with an error or with a profile and never both, whatever
\* the fetch handed over and whether or not done throws.
C1_DoneExactlyOnce ==
  \A c \in Calls :
    Completed(c) =>
      /\ Len(doneCalls[c]) = 1
      /\ (1 \in ProfileCalls(c)) # (1 \in ErrorCalls(c))

\* C4: when the fetch reports a transport error, done is invoked once with
\* an InternalOAuthError carrying the fixed message and the original error;
\* no profile is delivered, the body is not parsed and no second fetch is
\* issued.
C4_TransportError ==
  \A c \in Calls :
    FetchFailed(c) =>
      /\ Len(doneCalls[c]) = 1
      /\ Len(doneCalls[c][1]) = 1
      /\ doneCalls[c][1][1].type = "error"
      /\ doneCalls[c][1][1].name = "InternalOAuthError"
      /\ doneCalls[c][1][1].message = "failed to fetch user profile"
      /\ doneCalls[c][1][1].oauthError = response[c].err
      /\ ProfilesDelivered(c) = {}
      /\ ~parsed[c]
      /\ Len(requests[c]) = 1

\* a transport error arrived next to a body that holds a channel
C4_Witness ==
  \E c \in Calls : FetchFailed(c) /\ response[c].body = JStr(BodyChannel)

\* what the parsed body of c's response holds
ParsedBody(c) == JSONparse(response[c].body)

ItemList(json) ==
  IF json.type = "object" /\ "items" \in DOMAIN json.props
  THEN json.props.items ELSE Undefined

HasItems(json) == ItemList(json).type = "array" /\ Len(ItemList(json).elems) > 0

FirstItem(json) == ItemList(json).elems[1]

\* reading the expected fields raises: the parsed body is null, or the first
\* item is an object without a snippet
ReadRaises(json) ==
  \/ json = JNull
  \/ /\ HasItems(json)
     /\ FirstItem(json).type = "object"
     /\ "snippet" \notin DOMAIN FirstItem(json).props

\* C5: when the fetch succeeds and the body is malformed JSON, or reading
\* the expected fields raises, done is invoked with the original exception
\* (the SyntaxError of the parse, the TypeError of the read) and no profile
\* is delivered.
C5_ParseError ==
  \A c \in Calls :
    (FetchSucceeded(c) /\ (~ParsedBody(c).ok \/ ReadRaises(ParsedBody(c).value))) =>
      /\ Len(doneCalls[c]) = 1
      /\ 1 \in ErrorCalls(c)
      /\ doneCalls[c][1][1].name =
           (IF ParsedBody(c).ok THEN "TypeError" ELSE "SyntaxError")
      /\ ProfilesDelivered(c) = {}

\* one call got malformed JSON, another a first item without a snippet
C5_Witness ==
  \E c, d \in Calls :
    /\ FetchSucceeded(c) /\ ~ParsedBody(c).ok
    /\ FetchSucceeded(d) /\ ParsedBody(d).ok /\ ReadRaises(ParsedBody(d).value)
    /\ HasItems(ParsedBody(d).value)

\* C7: every profile handed to done has provider 'youtube', _raw equal to
\* the response body string and _json equal to the parsed body.
C7_ProfileEnvelope ==
  \A c \in Calls :
    \A profile \in ProfilesDelivered(c) :
      /\ profile.type = "object"
      /\ {"provider", "_raw", "_json"} \subseteq DOMAIN profile.props
      /\ profile.props.provider = JStr("youtube")
      /\ profile.props["_raw"] = response[c].body
      /\ profile.props["_raw"].type = "string"
      /\ ParsedBody(c).ok
      /\ profile.props["_json"] = ParsedBody(c).value

\* a profile with a channel and a profile without one were delivered
C7_Witness ==
  \E c, d \in Calls :
    /\ \E profile \in ProfilesDelivered(c) : "id" \in DOMAIN profile.props
    /\ \E profile \in ProfilesDelivered(d) : "id" \notin DOMAIN profile.props

\* C9: every userProfile call has issued exactly one fetch, to the
\* configured profile URL with the access token it was given, also after
\* the fetch failed or the body did not parse; a profile it delivers comes
\* from the body of its own fetch.
C9_OneFetch ==
  \A c \in Calls :
    pc[c] # "idle" =>
      /\ Len(requests[c]) = 1
      /\ requests[c][1].url = config.profileURL
      /\ requests[c][1].accessToken = accessToken[c]
      /\ \A profile \in ProfilesDelivered(c) :
           profile.props["_raw"] = response[c].body

\* with a configured profile URL, one call's fetch failed and another's
\* body did not parse, and they were given different tokens
C9_Witness ==
  /\ config.profileURL # DefaultProfileURL
  /\ \E c, d \in Calls :
       /\ FetchFailed(c)
       /\ FetchSucceeded(d) /\ ~ParsedBody(d).ok
       /\ accessToken[c] # accessToken[d]

\* the first done invocation of c delivers a profile
CompletesWithProfile(c) == Len(doneCalls[c]) >= 1 /\ 1 \in ProfileCalls(c)

HasIdOrDisplayName(profile) ==
  "id" \in DOMAIN profile.props \/ "displayName" \in DOMAIN profile.props

\* C6 (as stated): on a parsed body, if the item list is present and
\* non-empty a delivered profile has the first item's id and snippet title
\* as id and displayName; if it is absent or empty the call completes with
\* a profile that has neither.
C6_FirstItemAsStated ==
  \A c \in Calls :
    (FetchSucceeded(c) /\ ParsedBody(c).ok) =>
      LET json == ParsedBody(c).value IN
      IF HasItems(json)
      THEN \A profile \in ProfilesDelivered(c) :
             /\ {"id", "displayName"} \subseteq DOMAIN profile.props
             /\ FirstItem(json).type = "object"
             /\ profile.props.id = GetProp(FirstItem(json), "id")
             /\ profile.props.displayName =
                  GetProp(GetProp(FirstItem(json), "snippet"), "title")
      ELSE /\ CompletesWithProfile(c)
           /\ \A profile \in ProfilesDelivered(c) : ~HasIdOrDisplayName(profile)

\* the parsed body has a truthy `items` with a truthy length and a truthy
\* first element
HasTruthyFirstItem(json) ==
  /\ CanRead(json)
  /\ Truthy(GetProp(json, "items"))
  /\ Truthy(GetProp(GetProp(json, "items"), "length"))
  /\ Truthy(GetFirst(GetProp(json, "items")))

\* C6 (amended): on a parsed body other than null, if `items` has a truthy
\* first element a delivered profile has that element's id and snippet
\* title as id and displayName; otherwise (items absent, empty, or with a
\* falsy first element) the call completes with a profile that has neither.
C6_FirstItem ==
  \A c \in Calls :
    (FetchSucceeded(c) /\ ParsedBody(c).ok /\ ParsedBody(c).value # JNull) =>
      LET json == ParsedBody(c).value IN
      IF HasTruthyFirstItem(json)
      THEN \A profile \in ProfilesDelivered(c) :
             /\ {"id", "displayName"} \subseteq DOMAIN profile.props
             /\ profile.props.id = GetProp(FirstItem(json), "id")
             /\ profile.props.displayName =
                  GetProp(GetProp(FirstItem(json), "snippet"), "title")
      ELSE /\ CompletesWithProfile(c)
           /\ \A profile \in ProfilesDelivered(c) : ~HasIdOrDisplayName(profile)

\* one call delivered the first of two channels, another got a list whose
\* first element is null and delivered a profile without id
C6_Witness ==
  \E c, d \in Calls :
    /\ FetchSucceeded(c) /\ response[c].body = JStr(BodyTwoChannels)
    /\ \E profile \in ProfilesDelivered(c) : profile.props.id = JStr("x")
    /\ FetchSucceeded(d) /\ response[d].body = JStr(BodyNullItem)
    /\ CompletesWithProfile(d)

\* the documented renaming of the options that map one to one
ParamFor ==
  [accessType |-> "access_type",
   approvalPrompt |-> "approval_prompt",
   prompt |-> "prompt",
   loginHint |-> "login_hint",
   userID |-> "user_id",
   display |-> "display",
   requestVisibleActions |-> "request_visible_actions",
   openIDRealm |-> "openid.realm"]

\* option o is present on the options object and truthy
Given(options, o) == o \in DOMAIN options.props /\ Truthy(options.props[o])

\* C2: the returned map has a key exactly when the corresponding option is
\* present and truthy, with that option's value; hd is there exactly when
\* hostedDomain or hd is given, with the value of one that is given; other
\* keys add nothing, and empty options give an empty map.
C2_AuthorizationParams ==
  returned.op = "authorizationParams" =>
    LET options == returned.args
        params == returned.value
    IN /\ params.type = "object"
       /\ \A o \in DOMAIN ParamFor :
            /\ (ParamFor[o] \in DOMAIN params.props) <=> Given(options, o)
            /\ Given(options, o) => params.props[ParamFor[o]] = options.props[o]
       /\ ("hd" \in DOMAIN params.props)
            <=> (Given(options, "hostedDomain") \/ Given(options, "hd"))
       /\ "hd" \in DOMAIN params.props =>
            \E o \in {"hostedDomain", "hd"} :
              Given(options, o) /\ params.props.hd = options.props[o]
       /\ DOMAIN params.props \subseteq {ParamFor[o] : o \in DOMAIN ParamFor} \cup {"hd"}
       /\ (DOMAIN options.props = {}) => (DOMAIN params.props = {})

\* options with a recognised option that is set, and beside it either a
\* recognised one that is falsy or a key the function does not read
C2_Witness ==
  /\ returned.op = "authorizationParams"
  /\ Cardinality(DOMAIN returned.args.props) = 2
  /\ Cardinality(DOMAIN returned.value.props) = 1
  /\ "hd" \notin DOMAIN returned.value.props

\* C3 (as stated): whenever hostedDomain and hd are both supplied, the hd
\* entry of the returned map is the value of hostedDomain.
C3_HostedDomainAsStated ==
  returned.op = "authorizationParams" =>
    ({"hostedDomain", "hd"} \subseteq DOMAIN returned.args.props =>
       GetProp(returned.value, "hd") = returned.args.props.hostedDomain)

\* C3 (amended): whenever hostedDomain and hd are both supplied and
\* hostedDomain is truthy, the hd entry of the returned map is the value of
\* hostedDomain.
C3_HostedDomain ==
  returned.op = "authorizationParams" =>
    (({"hostedDomain", "hd"} \subseteq DOMAIN returned.args.props
        /\ Truthy(returned.args.props.hostedDomain)) =>
       GetProp(returned.value, "hd") = returned.args.props.hostedDomain)

\* both were supplied, truthy and different
C3_Witness ==
  /\ returned.op = "authorizationParams"
  /\ {"hostedDomain", "hd"} \subseteq DOMAIN returned.args.props
  /\ Truthy(returned.args.props.hostedDomain)
  /\ Truthy(returned.args.props.hd)
  /\ returned.args.props.hostedDomain # returned.args.props.hd

\* the documented provider names of a requested name
ProviderNames(f) ==
  CASE f = "id" -> <<"id">>
    [] f = "username" -> <<"username">>
    [] f = "displayName" -> <<"name">>
    [] f = "name" -> <<"last_name", "first_name">>
    [] OTHER -> <<>>

RECURSIVE ExpectedFields(_)
ExpectedFields(requested) ==
  IF requested = <<>> THEN <<>>
  ELSE ProviderNames(Head(requested)) \o ExpectedFields(Tail(requested))

\* a sequence of names in the comma-separated form of the return value
RECURSIVE Listed(_)
Listed(names) ==
  IF names = <<>> THEN ""
  ELSE IF Len(names) = 1 THEN names[1]
  ELSE names[1] \o "," \o Listed(Tail(names))

\* C8: the returned list holds, in the order of the request, id for id,
\* username for username, name for displayName and last_name, first_name
\* for name, and nothing for any other requested name.
C8_FieldMapping ==
  returned.op = "_convertProfileFields" =>
    returned.value = JStr(Listed(ExpectedFields(returned.args)))

\* what done of c received comes from c's own response, and two calls with
\* the same response and the same done received the same
OwnResponseOnly ==
  /\ \A c \in Calls :
       /\ \A profile \in ProfilesDelivered(c) :
            /\ profile.props["_raw"] = response[c].body
            /\ profile.props["_json"] = ParsedBody(c).value
       /\ \A i \in ErrorCalls(c) :
            doneCalls[c][i][1].name = "InternalOAuthError" =>
              doneCalls[c][i][1].oauthError = response[c].err
  /\ \A c, d \in Calls :
       (Completed(c) /\ Completed(d) /\ response[c] = response[d] /\ done[c] = done[d])
         => doneCalls[c] = doneCalls[d]

\* the two synchronous functions return what their arguments call for,
\* whatever userProfile calls are in flight
OwnArgumentsOnly ==
  /\ (returned.op = "authorizationParams"
        /\ returned.args = JObj([hostedDomain |-> JStr("a.example"), hd |-> JStr("b.example")]))
       => returned.value = JObj([hd |-> JStr("a.example")])
  /\ (returned.op = "_convertProfileFields" /\ returned.args = <<"id", "name", "username">>)
       => returned.value = JStr("id,last_name,first_name,username")

\* C10: under any interleaving of userProfile, authorizationParams and
\* _convertProfileFields calls, each call's result comes from its own
\* arguments and its own fetch response, and no step changes the
\* configuration the constructor left.
C10_Independent ==
  /\ [](OwnResponseOnly /\ OwnArgumentsOnly)
  /\ [][config' = config]_vars

\* two userProfile calls received different bodies and both delivered a
\* profile, and a synchronous function has returned in between
C10_Witness ==
  /\ returned.op # "none"
  /\ \E c, d \in Calls :
       /\ ProfilesDelivered(c) # {} /\ ProfilesDelivered(d) # {}
       /\ response[c].body # response[d].body

====
